---------------------------- MODULE Spec2Model ----------------------------
(***************************************************************************)
(* Model of mindboggle/utils/ants.py: the wrappers ImageMath, ANTS,        *)
(* WarpImageMultiTransform, PropagateLabelsThroughMask and                 *)
(* fill_volume_with_surface_labels.  Each wrapper derives default paths,   *)
(* builds an argument list, runs it through execute() and checks that the  *)
(* expected output exists on disk.                                         *)
(*                                                                         *)
(* Python strings are sequences of one-character strings, so that          *)
(* concatenation, os.path.basename, str.split('.') and os.path.join are    *)
(* computed rather than assumed.  The file system is the set of paths that *)
(* exist.  Every statement group of a wrapper is one action; the program   *)
(* counter pc names the next statement group of the running function.      *)
(***************************************************************************)
EXTENDS Integers, Sequences, FiniteSets, TLC

VARIABLES
    cwd,      \* os.getcwd()
    fs,       \* set of paths for which os.path.exists() is True
    fn,       \* name of the running (or last finished) function
    pc,       \* next statement group of fn, "idle" or "done"
    args,     \* arguments fn was called with (never reassigned)
    loc,      \* local variables of fn (parameters are rebound here)
    stack,    \* suspended caller frames (fill_volume_with_surface_labels)
    cmds,     \* argument lists handed to execute() during this call, in order
    checks,   \* output existence tests of this call, in order
    result,   \* how the outermost call ended: return value or exception
    calls     \* number of top-level calls made so far

vars ==
    << cwd, fs, fn, pc, args, loc, stack, cmds, checks, result, calls >>

---------------------------------------------------------------------------
(* Bounds *)

\* number of top-level calls in one behaviour
MaxCalls ==
    1

---------------------------------------------------------------------------
(* String literals of the source *)

\* 'ImageMath'
S_ImageMath ==
    << "I", "m", "a", "g", "e", "M", "a", "t", "h" >>

\* '3'
S_3 ==
    << "3" >>

\* 'ImageMath.nii.gz'
S_ImageMath_nii_gz ==
    << "I", "m", "a", "g", "e", "M", "a", "t", "h", ".", "n", "i", "i", ".",
    "g", "z" >>

\* 'ANTS'
S_ANTS ==
    << "A", "N", "T", "S" >>

\* '_to_'
S_to ==
    << "_", "t", "o", "_" >>

\* 'Affine.txt'
S_Affine_txt ==
    << "A", "f", "f", "i", "n", "e", ".", "t", "x", "t" >>

\* 'Warp.nii.gz'
S_Warp_nii_gz ==
    << "W", "a", "r", "p", ".", "n", "i", "i", ".", "g", "z" >>

\* 'InverseWarp.nii.gz'
S_InverseWarp_nii_gz ==
    << "I", "n", "v", "e", "r", "s", "e", "W", "a", "r", "p", ".", "n", "i",
    "i", ".", "g", "z" >>

\* 'WarpImageMultiTransform'
S_WarpImageMultiTransform ==
    << "W", "a", "r", "p", "I", "m", "a", "g", "e", "M", "u", "l", "t", "i",
    "T", "r", "a", "n", "s", "f", "o", "r", "m" >>

\* 'WarpImageMultiTransform.nii.gz'
S_WarpImageMultiTransform_nii_gz ==
    << "W", "a", "r", "p", "I", "m", "a", "g", "e", "M", "u", "l", "t", "i",
    "T", "r", "a", "n", "s", "f", "o", "r", "m", ".", "n", "i", "i", ".",
    "g", "z" >>

\* 'PropagateLabelsThroughMask'
S_PropagateLabelsThroughMask ==
    << "P", "r", "o", "p", "a", "g", "a", "t", "e", "L", "a", "b", "e", "l",
    "s", "T", "h", "r", "o", "u", "g", "h", "M", "a", "s", "k" >>

\* 'PropagateLabelsThroughMask.nii.gz'
S_PropagateLabelsThroughMask_nii_gz ==
    << "P", "r", "o", "p", "a", "g", "a", "t", "e", "L", "a", "b", "e", "l",
    "s", "T", "h", "r", "o", "u", "g", "h", "M", "a", "s", "k", ".", "n",
    "i", "i", ".", "g", "z" >>

\* 'ThresholdImage'
S_ThresholdImage ==
    << "T", "h", "r", "e", "s", "h", "o", "l", "d", "I", "m", "a", "g", "e"
    >>

\* '0 1 0 1'
S_0101 ==
    << "0", " ", "1", " ", "0", " ", "1" >>

\* '.nii.gz'
S_nii_gz ==
    << ".", "n", "i", "i", ".", "g", "z" >>

\* 'surfaces.nii.gz'
S_surfaces_nii_gz ==
    << "s", "u", "r", "f", "a", "c", "e", "s", ".", "n", "i", "i", ".", "g",
    "z" >>

\* ' not found'
S_not_found ==
    << " ", "n", "o", "t", " ", "f", "o", "u", "n", "d" >>

\* 'Provide either xfm_stem or affine_transform and nonlinear_transform.'
S_exit_msg ==
    << "P", "r", "o", "v", "i", "d", "e", " ", "e", "i", "t", "h", "e", "r",
    " ", "x", "f", "m", "_", "s", "t", "e", "m", " ", "o", "r", " ", "a",
    "f", "f", "i", "n", "e", "_", "t", "r", "a", "n", "s", "f", "o", "r",
    "m", " ", "a", "n", "d", " ", "n", "o", "n", "l", "i", "n", "e", "a",
    "r", "_", "t", "r", "a", "n", "s", "f", "o", "r", "m", "." >>

\* '--use-NN'
S_use_NN ==
    << "-", "-", "u", "s", "e", "-", "N", "N" >>

\* '-R'
S_R ==
    << "-", "R" >>

\* '-i'
S_i ==
    << "-", "i" >>

\* '-o'
S_o ==
    << "-", "o" >>

\* '-m CC['
S_m_CC ==
    << "-", "m", " ", "C", "C", "[" >>

\* ','
S_comma ==
    << "," >>

\* ',1,2]'
S_12 ==
    << ",", "1", ",", "2", "]" >>

\* '-r Gauss[2,0]'
S_r_Gauss ==
    << "-", "r", " ", "G", "a", "u", "s", "s", "[", "2", ",", "0", "]" >>

\* '-t SyN[0.5] -i'
S_t_SyN ==
    << "-", "t", " ", "S", "y", "N", "[", "0", ".", "5", "]", " ", "-", "i"
    >>

\* '--use-Histogram-Matching'
S_hist ==
    << "-", "-", "u", "s", "e", "-", "H", "i", "s", "t", "o", "g", "r", "a",
    "m", "-", "M", "a", "t", "c", "h", "i", "n", "g" >>

\* '--number-of-affine-iterations 10000x10000x10000x10000x10000'
S_naff ==
    << "-", "-", "n", "u", "m", "b", "e", "r", "-", "o", "f", "-", "a", "f",
    "f", "i", "n", "e", "-", "i", "t", "e", "r", "a", "t", "i", "o", "n",
    "s", " ", "1", "0", "0", "0", "0", "x", "1", "0", "0", "0", "0", "x",
    "1", "0", "0", "0", "0", "x", "1", "0", "0", "0", "0", "x", "1", "0",
    "0", "0", "0" >>

\* '30x99x11'
S_30x99x11 ==
    << "3", "0", "x", "9", "9", "x", "1", "1" >>

\* 'm'
S_m ==
    << "m" >>

\* 'getcwd() takes no arguments (1 given)'
S_getcwd_msg ==
    << "g", "e", "t", "c", "w", "d", "(", ")", " ", "t", "a", "k", "e", "s",
    " ", "n", "o", " ", "a", "r", "g", "u", "m", "e", "n", "t", "s", " ",
    "(", "1", " ", "g", "i", "v", "e", "n", ")" >>

---------------------------------------------------------------------------
(* Python values *)

\* s1 + s2
Cat(s, t) ==
    s \o t

\* the empty string ''
Empty ==
    << >>

\* truth value of a string: '' is false
TruthyStr(s) ==
    s # Empty

\* mask_index is None or an integer; None is << >>, the integer n is << n >>
None ==
    << >>

IntVal(n) ==
    << n >>

\* truth value of mask_index in "if mask_index:": None and 0 are false
TruthyIndex(m) ==
    m # None /\ m[1] # 0

\* os.path.basename(p): what follows the last '/'
os_path_basename(p) ==
    LET slashes == { i \in 1..Len(p) : p[i] = "/" }
        last == IF slashes = {} THEN 0
                ELSE CHOOSE i \in slashes : \A j \in slashes : j <= i
    IN  SubSeq(p, last + 1, Len(p))

\* s.split('.')[0]: what precedes the first '.'
split_dot_0(s) ==
    LET dots == { i \in 1..Len(s) : s[i] = "." }
        first == IF dots = {} THEN Len(s) + 1
                 ELSE CHOOSE i \in dots : \A j \in dots : i <= j
    IN  SubSeq(s, 1, first - 1)

\* os.path.join(a, b) on POSIX
os_path_join(a, b) ==
    IF b # Empty /\ b[1] = "/" THEN b
    ELSE IF a = Empty \/ a[Len(a)] = "/" THEN Cat(a, b)
    ELSE Cat(Cat(a, << "/" >>), b)

\* os.path.exists(p)
os_path_exists(p) ==
    p \in fs

---------------------------------------------------------------------------
(* Inputs *)

\* working directories
CwdSet ==
    { << "/" >>, << "/", "w" >> }

\* source and target volumes
SourceSet ==
    { << "/", "d", "/", "s", ".", "n", ".", "g" >>, << "s" >> }

TargetSet ==
    { << "/", "d", "/", "t", ".", "n" >> }

\* volumes for ImageMath and the mask / label volumes
Vol1 ==
    << "/", "d", "/", "a" >>

Vol2 ==
    << "/", "d", "/", "b" >>

\* caller-supplied output file: '' asks for the default
OutputSet ==
    { Empty, << "/", "o", "/", "x" >> }

\* caller-supplied stems: '' asks for the default
StemSet ==
    { Empty, << "/", "o", "/", "p" >> }

AffineSet ==
    { Empty, Cat(<< "/", "o", "/", "p" >>, S_Affine_txt) }

NonlinearSet ==
    { Empty, Cat(<< "/", "o", "/", "p" >>, S_Warp_nii_gz) }

IterationsSet ==
    { << "0" >>, S_30x99x11 }

MaskIndexSet ==
    { None, IntVal(0), IntVal(1) }

\* surface_files: a string or a list of one or two strings
Surf1 ==
    << "l", ".", "v", "t", "k" >>

Surf2 ==
    << "r", ".", "v", "t", "k" >>

SurfaceFilesSet ==
    { [type |-> "str", val |-> Surf1],
      [type |-> "list", val |-> << Surf1 >>],
      [type |-> "list", val |-> << Surf1, Surf2 >>] }

\* files that may exist before the first call
PreExisting ==
    { << "/", "o", "/", "x" >>,
      Cat(<< "/", "o", "/", "p" >>, S_Warp_nii_gz),
      Cat(<< "/", "o", "/", "p" >>, S_InverseWarp_nii_gz) }

---------------------------------------------------------------------------
(* Initial state *)

NoResult ==
    [kind |-> "none", value |-> Empty]

Init ==
    /\ cwd \in CwdSet
    /\ fs \in SUBSET PreExisting
    /\ fn = "none"
    /\ pc = "idle"
    /\ args = [none |-> TRUE]
    /\ loc = [none |-> TRUE]
    /\ stack = << >>
    /\ cmds = << >>
    /\ checks = << >>
    /\ result = NoResult
    /\ calls = 0

---------------------------------------------------------------------------
(* Calls, returns, exceptions, execute *)

\* a function is entered from the interpreter prompt
Enter(f, first, a, l) ==
    /\ pc \in {"idle", "done"}
    /\ calls < MaxCalls
    /\ calls' = calls + 1
    /\ fn' = f
    /\ pc' = first
    /\ args' = a
    /\ loc' = l
    /\ stack' = << >>
    /\ cmds' = << >>
    /\ checks' = << >>
    /\ result' = NoResult
    /\ UNCHANGED << cwd, fs >>

\* "return v": to the caller frame if there is one, else the call is over.
\* (Record fields are written everywhere in the order of their first mention
\* in this module, output_file first.)
Return(v) ==
    IF stack = << >>
    THEN /\ pc' = "done"
         /\ result' = [kind |-> "return", value |-> v]
         /\ UNCHANGED << fn, args, loc, stack >>
    ELSE /\ fn' = stack[1].fn
         /\ args' = stack[1].args
         /\ loc' = [stack[1].loc EXCEPT !.output_file = v]
         /\ pc' = stack[1].pc
         /\ stack' = << >>
         /\ UNCHANGED result

\* an exception nobody catches: it unwinds every frame
Raise(kind, msg) ==
    /\ pc' = "done"
    /\ result' = [kind |-> kind, value |-> msg]
    /\ stack' = << >>
    /\ UNCHANGED << fn, args, loc >>

\* execute(cmd): the command runs to completion; of the files it is asked
\* to write, any may or may not exist afterwards
execute(cmd, outputs) ==
    /\ cmds' = Append(cmds, cmd)
    /\ \E created \in SUBSET (outputs \ {Empty}) : fs' = fs \cup created

\* one output existence test "os.path.exists(p)"
Check(p) ==
    [path |-> p, found |-> os_path_exists(p), ncmds |-> Len(cmds)]

---------------------------------------------------------------------------
(* ImageMath *)

Call_ImageMath ==
    \E out \in OutputSet :
        LET a == [output_file |-> out, volume1 |-> Vol1, volume2 |-> Vol2,
                  operator |-> S_m]
        IN  Enter("ImageMath", "IM_default", a, a)

\* if not output_file: output_file = os.path.join(os.getcwd(), ...)
IM_default ==
    /\ fn = "ImageMath" /\ pc = "IM_default"
    /\ loc' = IF ~TruthyStr(loc.output_file)
              THEN [loc EXCEPT !.output_file =
                        os_path_join(cwd, S_ImageMath_nii_gz)]
              ELSE loc
    /\ pc' = "IM_exec"
    /\ UNCHANGED << cwd, fs, fn, args, stack, cmds, checks, result, calls >>

\* cmd = ['ImageMath', '3', output_file, operator, volume1, volume2]
IM_exec ==
    /\ fn = "ImageMath" /\ pc = "IM_exec"
    /\ execute(<< S_ImageMath, S_3, loc.output_file, loc.operator,
                  loc.volume1, loc.volume2 >>, {loc.output_file})
    /\ pc' = "IM_check"
    /\ UNCHANGED << cwd, fn, args, loc, stack, checks, result, calls >>

\* if not os.path.exists(output_file): raise IOError; return output_file
IM_check ==
    /\ fn = "ImageMath" /\ pc = "IM_check"
    /\ checks' = Append(checks, Check(loc.output_file))
    /\ IF ~os_path_exists(loc.output_file)
       THEN Raise("IOError", Cat(loc.output_file, S_not_found))
       ELSE Return(loc.output_file)
    /\ UNCHANGED << cwd, fs, cmds, calls >>

---------------------------------------------------------------------------
(* ANTS *)

Call_ANTS ==
    \E s \in SourceSet, t \in TargetSet, it \in IterationsSet,
       stem \in StemSet :
        LET a == [source |-> s, target |-> t, iterations |-> it,
                  output_stem |-> stem]
        IN  Enter("ANTS", "ANTS_default", a, a)

\* ANTS_default keeping the extensions of the base names
ANTS_default_keeps_extension ==
    /\ fn = "ANTS" /\ pc = "ANTS_default"
    /\ loc' = IF ~TruthyStr(loc.output_stem)
              THEN LET src == os_path_basename(loc.source)
                       tgt == os_path_basename(loc.target)
                   IN  [loc EXCEPT !.output_stem =
                            os_path_join(cwd, Cat(Cat(src, S_to), tgt))]
              ELSE loc
    /\ pc' = "ANTS_exec"
    /\ UNCHANGED << cwd, fs, fn, args, stack, cmds, checks, result, calls >>

\* if not output_stem: src/tgt base names up to the first '.', joined to cwd
ANTS_default ==
    /\ fn = "ANTS" /\ pc = "ANTS_default"
    /\ loc' = IF ~TruthyStr(loc.output_stem)
              THEN LET src == split_dot_0(os_path_basename(loc.source))
                       tgt == split_dot_0(os_path_basename(loc.target))
                   IN  [loc EXCEPT !.output_stem =
                            os_path_join(cwd, Cat(Cat(src, S_to), tgt))]
              ELSE loc
    /\ pc' = "ANTS_exec"
    /\ UNCHANGED << cwd, fs, fn, args, stack, cmds, checks, result, calls >>

\* the three transform files derived from output_stem
affine_transform_of(stem) ==
    Cat(stem, S_Affine_txt)

nonlinear_transform_of(stem) ==
    Cat(stem, S_Warp_nii_gz)

nonlinear_inverse_transform_of(stem) ==
    Cat(stem, S_InverseWarp_nii_gz)

\* cmd = ['ANTS', '3', '-m CC[...]', ..., '-o', output_stem, ...]
ANTS_exec ==
    /\ fn = "ANTS" /\ pc = "ANTS_exec"
    /\ execute(<< S_ANTS, S_3,
                  Cat(Cat(Cat(Cat(S_m_CC, loc.target), S_comma), loc.source),
                      S_12),
                  S_r_Gauss, S_t_SyN, loc.iterations,
                  S_o, loc.output_stem, S_hist, S_naff >>,
               { affine_transform_of(loc.output_stem),
                 nonlinear_transform_of(loc.output_stem),
                 nonlinear_inverse_transform_of(loc.output_stem) })
    /\ pc' = "ANTS_check"
    /\ UNCHANGED << cwd, fn, args, loc, stack, checks, result, calls >>

\* ANTS_check without the test of the nonlinear inverse transform
ANTS_check_no_inverse_test ==
    /\ fn = "ANTS" /\ pc = "ANTS_check"
    /\ LET a == affine_transform_of(loc.output_stem)
           n == nonlinear_transform_of(loc.output_stem)
           i == nonlinear_inverse_transform_of(loc.output_stem)
       IN  IF ~os_path_exists(a)
           THEN /\ checks' = checks \o << Check(a) >>
                /\ Raise("IOError", Cat(a, S_not_found))
           ELSE IF ~os_path_exists(n)
           THEN /\ checks' = checks \o << Check(a), Check(n) >>
                /\ Raise("IOError", Cat(n, S_not_found))
           ELSE /\ checks' = checks \o << Check(a), Check(n) >>
                /\ Return(<< a, n, i, loc.output_stem >>)
    /\ UNCHANGED << cwd, fs, cmds, calls >>

\* the three existence tests in order, each raising IOError, then the tuple
ANTS_check ==
    /\ fn = "ANTS" /\ pc = "ANTS_check"
    /\ LET a == affine_transform_of(loc.output_stem)
           n == nonlinear_transform_of(loc.output_stem)
           i == nonlinear_inverse_transform_of(loc.output_stem)
       IN  IF ~os_path_exists(a)
           THEN /\ checks' = checks \o << Check(a) >>
                /\ Raise("IOError", Cat(a, S_not_found))
           ELSE IF ~os_path_exists(n)
           THEN /\ checks' = checks \o << Check(a), Check(n) >>
                /\ Raise("IOError", Cat(n, S_not_found))
           ELSE IF ~os_path_exists(i)
           THEN /\ checks' = checks \o << Check(a), Check(n), Check(i) >>
                /\ Raise("IOError", Cat(i, S_not_found))
           ELSE /\ checks' = checks \o << Check(a), Check(n), Check(i) >>
                /\ Return(<< a, n, i, loc.output_stem >>)
    /\ UNCHANGED << cwd, fs, cmds, calls >>

---------------------------------------------------------------------------
(* WarpImageMultiTransform *)

Call_WarpImageMultiTransform ==
    \E out \in OutputSet, stem \in StemSet, aff \in AffineSet,
       nl \in NonlinearSet, inv \in BOOLEAN, ao \in BOOLEAN :
        LET a == [source |-> Vol1, target |-> Vol2, output |-> out,
                  interp |-> S_use_NN, xfm_stem |-> stem,
                  affine_transform |-> aff, nonlinear_transform |-> nl,
                  inverse |-> inv, affine_only |-> ao]
        IN  Enter("WarpImageMultiTransform", "W_xfm", a, a)

\* W_xfm in which xfm_stem only fills in transforms the caller left empty
W_xfm_caller_transforms_win ==
    /\ fn = "WarpImageMultiTransform" /\ pc = "W_xfm"
    /\ IF TruthyStr(loc.xfm_stem)
       THEN /\ loc' = [loc EXCEPT
                         !.affine_transform =
                             IF TruthyStr(loc.affine_transform)
                             THEN loc.affine_transform
                             ELSE Cat(loc.xfm_stem, S_Affine_txt),
                         !.nonlinear_transform =
                             IF TruthyStr(loc.nonlinear_transform)
                             THEN loc.nonlinear_transform
                             ELSE IF loc.inverse
                             THEN Cat(loc.xfm_stem, S_InverseWarp_nii_gz)
                             ELSE Cat(loc.xfm_stem, S_Warp_nii_gz)]
            /\ pc' = "W_default"
            /\ UNCHANGED << fn, args, stack, result >>
       ELSE IF ~TruthyStr(loc.affine_transform)
               /\ ~TruthyStr(loc.nonlinear_transform)
       THEN Raise("SystemExit", S_exit_msg)
       ELSE /\ pc' = "W_default"
            /\ UNCHANGED << fn, args, loc, stack, result >>
    /\ UNCHANGED << cwd, fs, cmds, checks, calls >>

\* if xfm_stem: ... elif not affine_transform and not nonlinear_transform:
\*     sys.exit(...)
W_xfm ==
    /\ fn = "WarpImageMultiTransform" /\ pc = "W_xfm"
    /\ IF TruthyStr(loc.xfm_stem)
       THEN /\ loc' = [loc EXCEPT
                         !.affine_transform = Cat(loc.xfm_stem, S_Affine_txt),
                         !.nonlinear_transform =
                             IF loc.inverse
                             THEN Cat(loc.xfm_stem, S_InverseWarp_nii_gz)
                             ELSE Cat(loc.xfm_stem, S_Warp_nii_gz)]
            /\ pc' = "W_default"
            /\ UNCHANGED << fn, args, stack, result >>
       ELSE IF ~TruthyStr(loc.affine_transform)
               /\ ~TruthyStr(loc.nonlinear_transform)
       THEN Raise("SystemExit", S_exit_msg)
       ELSE /\ pc' = "W_default"
            /\ UNCHANGED << fn, args, loc, stack, result >>
    /\ UNCHANGED << cwd, fs, cmds, checks, calls >>

\* if not output: output = os.path.join(os.getcwd(), ...)
W_default ==
    /\ fn = "WarpImageMultiTransform" /\ pc = "W_default"
    /\ loc' = IF ~TruthyStr(loc.output)
              THEN [loc EXCEPT !.output =
                        os_path_join(cwd, S_WarpImageMultiTransform_nii_gz)]
              ELSE loc
    /\ pc' = "W_affine_only"
    /\ UNCHANGED << cwd, fs, fn, args, stack, cmds, checks, result, calls >>

\* if not os.path.exists(nonlinear_transform): affine_only = True
W_affine_only ==
    /\ fn = "WarpImageMultiTransform" /\ pc = "W_affine_only"
    /\ loc' = IF ~os_path_exists(loc.nonlinear_transform)
              THEN [loc EXCEPT !.affine_only = TRUE]
              ELSE loc
    /\ pc' = "W_exec"
    /\ UNCHANGED << cwd, fs, fn, args, stack, cmds, checks, result, calls >>

\* the four shapes of cmd
WarpCmd(l) ==
    LET head == << S_WarpImageMultiTransform, S_3, l.source, l.output, S_R,
                   l.target, l.interp >>
    IN  IF l.affine_only
        THEN IF l.inverse
             THEN head \o << S_i, l.affine_transform >>
             ELSE head \o << l.affine_transform >>
        ELSE IF l.inverse
             THEN head \o << S_i, l.affine_transform, l.nonlinear_transform >>
             ELSE head \o << l.nonlinear_transform, l.affine_transform >>

W_exec ==
    /\ fn = "WarpImageMultiTransform" /\ pc = "W_exec"
    /\ execute(WarpCmd(loc), {loc.output})
    /\ pc' = "W_check"
    /\ UNCHANGED << cwd, fn, args, loc, stack, checks, result, calls >>

\* if not os.path.exists(output): raise IOError; return output
W_check ==
    /\ fn = "WarpImageMultiTransform" /\ pc = "W_check"
    /\ checks' = Append(checks, Check(loc.output))
    /\ IF ~os_path_exists(loc.output)
       THEN Raise("IOError", Cat(loc.output, S_not_found))
       ELSE Return(loc.output)
    /\ UNCHANGED << cwd, fs, cmds, calls >>

---------------------------------------------------------------------------
(* PropagateLabelsThroughMask *)

\* parameters of PropagateLabelsThroughMask; temp_file and mask are the
\* locals bound later ('' while unbound)
PropagateFrame(mv, lv, mi, out, bin) ==
    [output_file |-> out, mask_volume |-> mv, label_volume |-> lv,
     mask_index |-> mi, binarize |-> bin]

PropagateLocals(a) ==
    [output_file |-> a.output_file, mask_volume |-> a.mask_volume,
     label_volume |-> a.label_volume, mask_index |-> a.mask_index,
     binarize |-> a.binarize, temp_file |-> Empty, mask |-> Empty]

Call_PropagateLabelsThroughMask ==
    \E mi \in MaskIndexSet, out \in OutputSet, bin \in BOOLEAN :
        LET a == PropagateFrame(Vol1, Vol2, mi, out, bin)
        IN  Enter("PropagateLabelsThroughMask", "P_default", a,
                  PropagateLocals(a))

\* if not output_file: output_file = os.path.join(os.getcwd(), ...)
P_default ==
    /\ fn = "PropagateLabelsThroughMask" /\ pc = "P_default"
    /\ loc' = IF ~TruthyStr(loc.output_file)
              THEN [loc EXCEPT !.output_file =
                        os_path_join(cwd, S_PropagateLabelsThroughMask_nii_gz)]
              ELSE loc
    /\ pc' = "P_binarize"
    /\ UNCHANGED << cwd, fs, fn, args, stack, cmds, checks, result, calls >>

\* P_binarize that forgets "mask_volume = temp_file"
P_binarize_keeps_mask_volume ==
    /\ fn = "PropagateLabelsThroughMask" /\ pc = "P_binarize"
    /\ IF loc.binarize
       THEN LET temp_file ==
                    os_path_join(cwd, S_PropagateLabelsThroughMask_nii_gz)
            IN  /\ execute(<< S_ThresholdImage, S_3, loc.mask_volume,
                              temp_file, S_0101 >>, {temp_file})
                /\ loc' = [loc EXCEPT !.temp_file = temp_file]
       ELSE UNCHANGED << fs, cmds, loc >>
    /\ pc' = "P_mask"
    /\ UNCHANGED << cwd, fn, args, stack, checks, result, calls >>

\* if binarize: ThresholdImage mask_volume -> temp_file; mask_volume = temp_file
P_binarize ==
    /\ fn = "PropagateLabelsThroughMask" /\ pc = "P_binarize"
    /\ IF loc.binarize
       THEN LET temp_file ==
                    os_path_join(cwd, S_PropagateLabelsThroughMask_nii_gz)
            IN  /\ execute(<< S_ThresholdImage, S_3, loc.mask_volume,
                              temp_file, S_0101 >>, {temp_file})
                /\ loc' = [loc EXCEPT !.temp_file = temp_file,
                                      !.mask_volume = temp_file]
       ELSE UNCHANGED << fs, cmds, loc >>
    /\ pc' = "P_mask"
    /\ UNCHANGED << cwd, fn, args, stack, checks, result, calls >>

\* if mask_index: mask = os.getcwd('temp.nii.gz') ... else: mask = mask_volume
\* os.getcwd takes no argument, so the first branch raises TypeError before
\* the ThresholdImage command that follows it is built or run
P_mask ==
    /\ fn = "PropagateLabelsThroughMask" /\ pc = "P_mask"
    /\ IF TruthyIndex(loc.mask_index)
       THEN Raise("TypeError", S_getcwd_msg)
       ELSE /\ loc' = [loc EXCEPT !.mask = loc.mask_volume]
            /\ pc' = "P_exec"
            /\ UNCHANGED << fn, args, stack, result >>
    /\ UNCHANGED << cwd, fs, cmds, checks, calls >>

\* cmd = ['ImageMath', '3', output_file, 'PropagateLabelsThroughMask',
\*        mask, label_volume]
P_exec ==
    /\ fn = "PropagateLabelsThroughMask" /\ pc = "P_exec"
    /\ execute(<< S_ImageMath, S_3, loc.output_file,
                  S_PropagateLabelsThroughMask, loc.mask,
                  loc.label_volume >>, {loc.output_file})
    /\ pc' = "P_check"
    /\ UNCHANGED << cwd, fn, args, loc, stack, checks, result, calls >>

\* if not os.path.exists(output_file): raise IOError; return output_file
P_check ==
    /\ fn = "PropagateLabelsThroughMask" /\ pc = "P_check"
    /\ checks' = Append(checks, Check(loc.output_file))
    /\ IF ~os_path_exists(loc.output_file)
       THEN Raise("IOError", Cat(loc.output_file, S_not_found))
       ELSE Return(loc.output_file)
    /\ UNCHANGED << cwd, fs, cmds, calls >>

---------------------------------------------------------------------------
(* fill_volume_with_surface_labels *)

Call_fill_volume_with_surface_labels ==
    \E sf \in SurfaceFilesSet, mi \in MaskIndexSet, out \in OutputSet,
       bin \in BOOLEAN :
        LET a == [output_file |-> out, mask_index |-> mi, binarize |-> bin,
                  volume_mask |-> Vol1, surface_files |-> sf]
            l == [output_file |-> out, mask_index |-> mi, binarize |-> bin,
                  volume_mask |-> Vol1, surface_files |-> sf,
                  surface_in_volume |-> Empty]
        IN  Enter("fill_volume_with_surface_labels", "F_surface", a, l)

\* transform_to_volume(surface, volume): writes a volume file for the
\* surface in the working directory and returns its name
transform_to_volume(surface, volume) ==
    os_path_join(cwd, Cat(os_path_basename(surface), S_nii_gz))

\* if isinstance(surface_files, str): surface_files = [surface_files]
\* surface_in_volume = transform_to_volume(surface_files[0], volume_mask)
F_surface ==
    /\ fn = "fill_volume_with_surface_labels" /\ pc = "F_surface"
    /\ LET surface_files ==
               IF loc.surface_files.type = "str"
               THEN [type |-> "list", val |-> << loc.surface_files.val >>]
               ELSE loc.surface_files
           v == transform_to_volume(surface_files.val[1], loc.volume_mask)
       IN  /\ loc' = [loc EXCEPT !.surface_files = surface_files,
                                 !.surface_in_volume = v]
           /\ fs' = fs \cup {v}
    /\ pc' = "F_second"
    /\ UNCHANGED << cwd, fn, args, stack, cmds, checks, result, calls >>

\* if len(surface_files) == 2: the second surface is transformed and
\* overwrite_volume_labels merges both into <cwd>/surfaces.nii.gz
F_second ==
    /\ fn = "fill_volume_with_surface_labels" /\ pc = "F_second"
    /\ IF Len(loc.surface_files.val) = 2
       THEN LET surfaces_in_volume == os_path_join(cwd, S_surfaces_nii_gz)
                surface_in_volume2 ==
                    transform_to_volume(loc.surface_files.val[2],
                                        loc.volume_mask)
            IN  /\ fs' = fs \cup {surface_in_volume2, surfaces_in_volume}
                /\ loc' = [loc EXCEPT
                             !.surface_in_volume = surfaces_in_volume]
       ELSE UNCHANGED << fs, loc >>
    /\ pc' = "F_call"
    /\ UNCHANGED << cwd, fn, args, stack, cmds, checks, result, calls >>

\* output_file = PropagateLabelsThroughMask(volume_mask, surface_in_volume,
\*                                          mask_index, output_file, binarize)
F_call ==
    /\ fn = "fill_volume_with_surface_labels" /\ pc = "F_call"
    /\ stack' = << [fn |-> fn, pc |-> "F_check", args |-> args, loc |-> loc] >>
    /\ LET a == PropagateFrame(loc.volume_mask, loc.surface_in_volume,
                               loc.mask_index, loc.output_file, loc.binarize)
       IN  /\ fn' = "PropagateLabelsThroughMask"
           /\ pc' = "P_default"
           /\ args' = a
           /\ loc' = PropagateLocals(a)
    /\ UNCHANGED << cwd, fs, cmds, checks, result, calls >>

\* if not os.path.exists(output_file): raise IOError; return output_file
F_check ==
    /\ fn = "fill_volume_with_surface_labels" /\ pc = "F_check"
    /\ checks' = Append(checks, Check(loc.output_file))
    /\ IF ~os_path_exists(loc.output_file)
       THEN Raise("IOError", Cat(loc.output_file, S_not_found))
       ELSE Return(loc.output_file)
    /\ UNCHANGED << cwd, fs, cmds, calls >>

---------------------------------------------------------------------------
(* Specification *)

Next ==
    \/ Call_ImageMath
    \/ IM_default
    \/ IM_exec
    \/ IM_check
    \/ Call_ANTS
    \/ ANTS_default
    \/ ANTS_exec
    \/ ANTS_check
    \/ Call_WarpImageMultiTransform
    \/ W_xfm
    \/ W_default
    \/ W_affine_only
    \/ W_exec
    \/ W_check
    \/ Call_PropagateLabelsThroughMask
    \/ P_default
    \/ P_binarize
    \/ P_mask
    \/ P_exec
    \/ P_check
    \/ Call_fill_volume_with_surface_labels
    \/ F_surface
    \/ F_second
    \/ F_call
    \/ F_check

Spec ==
    Init /\ [][Next]_vars

---------------------------------------------------------------------------
(* Properties *)

\* the elements of a sequence
Range(s) ==
    { s[k] : k \in 1..Len(s) }

\* the last command handed to execute()
LastCmd ==
    cmds[Len(cmds)]

\* the files whose existence the running function tests before returning
ExpectedOutputs ==
    IF fn = "ANTS"
    THEN { Cat(loc.output_stem, S_Affine_txt),
           Cat(loc.output_stem, S_Warp_nii_gz),
           Cat(loc.output_stem, S_InverseWarp_nii_gz) }
    ELSE IF fn = "WarpImageMultiTransform" THEN { loc.output }
    ELSE { loc.output_file }

\* the file paths in the value a finished call returned
ReturnedFiles ==
    IF fn = "ANTS"
    THEN { result.value[1], result.value[2], result.value[3] }
    ELSE { result.value }

\* C1: once a call in which an external command ran is over, it returned
\* only if every file path it returns was tested after the last command
\* and found, and if an expected output file does not exist the call
\* ended with IOError '<path> not found'.
C1_ReturnOnlyIfOutputsExistElseIOError ==
    (pc = "done" /\ cmds # << >>) =>
        /\ result.kind = "return" =>
               \A f \in ReturnedFiles :
                   \E c \in Range(checks) :
                       c.path = f /\ c.found /\ c.ncmds = Len(cmds)
        /\ ~(ExpectedOutputs \subseteq fs) =>
               /\ result.kind = "IOError"
               /\ \E f \in ExpectedOutputs \ fs :
                      result.value = Cat(f, S_not_found)

\* the first of three paths that does not exist
FirstMissing(a, n, i) ==
    IF a \notin fs THEN a ELSE IF n \notin fs THEN n ELSE i

\* C2: a finished ANTS call returned (affine, nonlinear, inverse, stem)
\* exactly when all three transform files exist after the command ran,
\* whatever iterations is; otherwise it raised IOError naming the first
\* missing file in the order affine, nonlinear, nonlinear inverse.
C2_ANTSReturnsOnlyIfAllThreeExist ==
    (fn = "ANTS" /\ pc = "done") =>
        LET a == Cat(loc.output_stem, S_Affine_txt)
            n == Cat(loc.output_stem, S_Warp_nii_gz)
            i == Cat(loc.output_stem, S_InverseWarp_nii_gz)
        IN  /\ Len(cmds) = 1
            /\ \A c \in Range(checks) : c.ncmds = 1
            /\ IF {a, n, i} \subseteq fs
               THEN /\ result.kind = "return"
                    /\ result.value = << a, n, i, loc.output_stem >>
               ELSE /\ result.kind = "IOError"
                    /\ result.value = Cat(FirstMissing(a, n, i), S_not_found)

\* C2 witness: an affine-only run (iterations "0") that left the affine
\* file but no warp file ended with IOError naming the warp file.
C2_Witness ==
    /\ fn = "ANTS" /\ pc = "done"
    /\ args.iterations = << "0" >>
    /\ Cat(loc.output_stem, S_Affine_txt) \in fs
    /\ result.kind = "IOError"
    /\ result.value = Cat(Cat(loc.output_stem, S_Warp_nii_gz), S_not_found)

\* C3: a WarpImageMultiTransform call with empty xfm_stem and at least one
\* of affine_transform, nonlinear_transform empty never gets past the
\* argument test: no command is executed and it ends with the
\* 'Provide either ...' exit.
C3_ExitUnlessBothTransformsGiven ==
    ( /\ fn = "WarpImageMultiTransform"
      /\ args.xfm_stem = Empty
      /\ (args.affine_transform = Empty \/ args.nonlinear_transform = Empty) )
    => /\ cmds = << >>
       /\ pc \in {"W_xfm", "done"}
       /\ pc = "done" =>
              result.kind = "SystemExit" /\ result.value = S_exit_msg

\* the decimal digits, for str(n) with 0 <= n <= 9
Digits ==
    << "0", "1", "2", "3", "4", "5", "6", "7", "8", "9" >>

\* 'ThresholdImage 3 {0} {1} {2} {3} 1 0'.format(mask_volume, mask,
\* mask_index, mask_index), as the words of the command line
ThresholdIndexCmd(mask_volume, mask, mask_index) ==
    << S_ThresholdImage, S_3, mask_volume, mask,
       << Digits[mask_index[1] + 1] >>, << Digits[mask_index[1] + 1] >>,
       << "1" >>, << "0" >> >>

\* the mask volume PropagateLabelsThroughMask works on after binarization
BinarizedOrGiven ==
    IF args.binarize
    THEN os_path_join(cwd, S_PropagateLabelsThroughMask_nii_gz)
    ELSE args.mask_volume

\* C4: a finished PropagateLabelsThroughMask call with an integer
\* mask_index executed a ThresholdImage command with both thresholds equal
\* to mask_index on the (possibly binarized) mask volume, passed that
\* command's result file as the mask of the final ImageMath command and
\* then returned output_file (or raised IOError for a missing output).
C4_IntegerMaskIndexThresholds ==
    ( /\ fn = "PropagateLabelsThroughMask" /\ pc = "done"
      /\ args.mask_index # None )
    => /\ result.kind \in {"return", "IOError"}
       /\ result.kind = "return" => result.value = loc.output_file
       /\ cmds # << >>
       /\ LastCmd[1] = S_ImageMath
       /\ \E k \in 1..Len(cmds) :
              cmds[k] = ThresholdIndexCmd(BinarizedOrGiven, LastCmd[5],
                                          args.mask_index)

\* the output path the caller asked for, or the documented default
ExpectedOutput ==
    IF fn = "ImageMath"
    THEN IF args.output_file # Empty THEN args.output_file
         ELSE os_path_join(cwd, S_ImageMath_nii_gz)
    ELSE IF fn = "WarpImageMultiTransform"
    THEN IF args.output # Empty THEN args.output
         ELSE os_path_join(cwd, S_WarpImageMultiTransform_nii_gz)
    ELSE IF fn = "PropagateLabelsThroughMask"
    THEN IF args.output_file # Empty THEN args.output_file
         ELSE os_path_join(cwd, S_PropagateLabelsThroughMask_nii_gz)
    ELSE IF args.output_stem # Empty THEN args.output_stem
         ELSE os_path_join(cwd,
                  Cat(Cat(split_dot_0(os_path_basename(args.source)), S_to),
                      split_dot_0(os_path_basename(args.target))))

\* the four functions C5 names
C5_Functions ==
    { "ImageMath", "ANTS", "WarpImageMultiTransform",
      "PropagateLabelsThroughMask" }

\* the local that holds the output path
OutputLocal ==
    IF fn = "ANTS" THEN loc.output_stem
    ELSE IF fn = "WarpImageMultiTransform" THEN loc.output
    ELSE loc.output_file

\* the output argument of a command
CmdOutput(c) ==
    IF c[1] = S_ANTS THEN c[8]
    ELSE IF c[1] = S_WarpImageMultiTransform THEN c[4]
    ELSE c[3]

\* the default-derivation statement of the running function is behind it
PastDefault ==
    pc \notin { "idle", "IM_default", "ANTS_default", "W_xfm", "W_default",
                "P_default" }
    /\ ~(pc = "done" /\ result.kind = "SystemExit")

\* the function's own command (not the binarization) has been executed
MainCmdRan ==
    \/ pc \in { "IM_check", "ANTS_check", "W_check", "P_check" }
    \/ pc = "done" /\ result.kind \in {"return", "IOError"}

\* the concrete stems the documented derivation gives for the two sources
C5_ConcreteStems ==
    (fn = "ANTS" /\ PastDefault /\ args.output_stem = Empty) =>
        /\ (args.source = << "/", "d", "/", "s", ".", "n", ".", "g" >>
              /\ cwd = << "/", "w" >>)
           => loc.output_stem =
                  << "/", "w", "/", "s", "_", "t", "o", "_", "t" >>
        /\ (args.source = << "s" >> /\ cwd = << "/" >>)
           => loc.output_stem = << "/", "s", "_", "t", "o", "_", "t" >>

\* the part of C5 that holds of all four functions: the derived or given
\* path is the one handed to the function's command and the one returned
C5_Common ==
    (fn \in C5_Functions) =>
        /\ PastDefault => OutputLocal = ExpectedOutput
        /\ MainCmdRan => CmdOutput(LastCmd) = ExpectedOutput
        /\ (pc = "done" /\ result.kind = "return") =>
               IF fn = "ANTS" THEN result.value[4] = ExpectedOutput
               ELSE result.value = ExpectedOutput

\* C5 as stated: defaults are derived only for an empty value, and the path
\* given to the command as output is the same path that is
\* existence-checked and returned, for ANTS as for the others.
C5_OutputPathGivenCheckedReturned ==
    /\ C5_Common
    /\ C5_ConcreteStems
    /\ (fn \in C5_Functions /\ pc = "done" /\ result.kind = "return") =>
           \E c \in Range(checks) : c.path = CmdOutput(LastCmd)

\* C5 amended: as C5, except that for ANTS the stem given to the command
\* is returned unchanged while the paths existence-checked are the stem
\* followed by 'Affine.txt', 'Warp.nii.gz' and 'InverseWarp.nii.gz'.
C5_OutputPathGivenCheckedReturnedAmended ==
    /\ C5_Common
    /\ C5_ConcreteStems
    /\ (fn \in C5_Functions /\ pc = "done" /\ result.kind = "return") =>
           IF fn = "ANTS"
           THEN { c.path : c \in Range(checks) } =
                    { Cat(ExpectedOutput, S_Affine_txt),
                      Cat(ExpectedOutput, S_Warp_nii_gz),
                      Cat(ExpectedOutput, S_InverseWarp_nii_gz) }
           ELSE { c.path : c \in Range(checks) } = { CmdOutput(LastCmd) }

\* C5 witness: ANTS called with an empty stem on /d/s.n.g and /d/t.n in /w
\* returned the derived stem /w/s_to_t.
C5_Witness ==
    /\ fn = "ANTS" /\ pc = "done" /\ result.kind = "return"
    /\ args.output_stem = Empty
    /\ args.source = << "/", "d", "/", "s", ".", "n", ".", "g" >>
    /\ result.value[4] = << "/", "w", "/", "s", "_", "t", "o", "_", "t" >>

\* the transforms C6 says WarpImageMultiTransform works with
ExpectedAffine ==
    IF args.xfm_stem # Empty THEN Cat(args.xfm_stem, S_Affine_txt)
    ELSE args.affine_transform

ExpectedNonlinear ==
    IF args.xfm_stem # Empty
    THEN IF args.inverse THEN Cat(args.xfm_stem, S_InverseWarp_nii_gz)
         ELSE Cat(args.xfm_stem, S_Warp_nii_gz)
    ELSE args.nonlinear_transform

\* C6: past the argument test of WarpImageMultiTransform a non-empty
\* xfm_stem determines both transforms (inverse choosing between
\* InverseWarp and Warp) whatever the caller passed for them, an empty
\* xfm_stem leaves the caller's transforms unchanged, and these are the
\* transforms in the executed command.
C6_XfmStemDeterminesTransforms ==
    ( /\ fn = "WarpImageMultiTransform"
      /\ pc # "W_xfm"
      /\ ~(pc = "done" /\ result.kind = "SystemExit") )
    => /\ loc.affine_transform = ExpectedAffine
       /\ loc.nonlinear_transform = ExpectedNonlinear
       /\ cmds # << >> =>
              LET tail == { cmds[1][k] : k \in 8..Len(cmds[1]) }
              IN  /\ ExpectedAffine \in tail
                  /\ ~loc.affine_only => ExpectedNonlinear \in tail
                  /\ tail \subseteq {S_i, ExpectedAffine, ExpectedNonlinear}

\* C6 witness: a finished inverse warp whose caller passed xfm_stem and both
\* transforms, run with the stem's affine and inverse warp files.
C6_Witness ==
    /\ fn = "WarpImageMultiTransform" /\ pc = "done"
    /\ args.xfm_stem # Empty
    /\ args.affine_transform # Empty /\ args.nonlinear_transform # Empty
    /\ args.inverse /\ ~loc.affine_only
    /\ cmds # << >>
    /\ Cat(args.xfm_stem, S_InverseWarp_nii_gz) \in Range(cmds[1])

\* arguments of the PropagateLabelsThroughMask call behind the current
\* frame, whether it is running or has returned to
\* fill_volume_with_surface_labels
InPropagate ==
    fn \in {"PropagateLabelsThroughMask", "fill_volume_with_surface_labels"}
    /\ pc \notin {"F_surface", "F_second", "F_call"}

CallerMaskVolume ==
    IF fn = "PropagateLabelsThroughMask" THEN args.mask_volume
    ELSE args.volume_mask

IsPropagateCmd(c) ==
    c[1] = S_ImageMath /\ c[4] = S_PropagateLabelsThroughMask

=============================================================================
